---------------------------- MODULE Spec2Model ----------------------------
(***************************************************************************)
(* Snatch word-game engine: the steal and merge searches of steals.js over *)
(* the dictionary state of state.js and the word utilities of words.js,    *)
(* the shared etymologies of etymology.js, and the history of visited      *)
(* words of navigation.js.                                                 *)
(*                                                                         *)
(* A word is a sequence of characters; a character is a one-letter string. *)
(* A letter-count object is a function from the letters present to their   *)
(* (positive) number of occurrences.                                       *)
(***************************************************************************)
EXTENDS Integers, Sequences, FiniteSets, TLC

(***************************************************************************)
(* Bounds of the model.                                                    *)
(***************************************************************************)
\* longest dictionary file enumerated exhaustively over Pool
MaxDictSize == 2
\* largest explicit maxResults argument tried (besides the default)
MaxCap == 1
\* longest navigation history
MaxHistory == 3
\* most navigations awaiting their search at one time
MaxInFlight == 2

(***************************************************************************)
(* Program constants.                                                      *)
(***************************************************************************)
MIN_WORD_LENGTH == 4
MIN_MERGE_LENGTH == MIN_WORD_LENGTH * 2 + 1
\* default value of the maxResults parameter
DEFAULT_MAX_RESULTS == 200
\* findMergeStealsTo: targetLength > sourceLength + 10 is skipped
MERGE_TO_WINDOW == 10

(***************************************************************************)
(* Characters.  CharCode is the UTF-16 code unit, the order Array.sort()   *)
(* uses by default; for upper-case ASCII words localeCompare agrees with   *)
(* it.                                                                     *)
(***************************************************************************)
CharCode ==
    [c \in {"A", "C", "E", "H", "I", "N", "R", "S", "T", "U", "Y", "|"} |->
        CASE c = "A" -> 65 [] c = "C" -> 67 [] c = "E" -> 69 [] c = "H" -> 72
          [] c = "I" -> 73 [] c = "N" -> 78 [] c = "R" -> 82 [] c = "S" -> 83
          [] c = "T" -> 84 [] c = "U" -> 85 [] c = "Y" -> 89 [] c = "|" -> 124]

Range(s) == {s[i] : i \in 1..Len(s)}

\* a < b for strings compared code unit by code unit (a proper prefix is less)
RECURSIVE StrLess(_, _)
StrLess(a, b) ==
    IF b = <<>> THEN FALSE
    ELSE IF a = <<>> THEN TRUE
    ELSE IF a[1] # b[1] THEN CharCode[a[1]] < CharCode[b[1]]
    ELSE StrLess(Tail(a), Tail(b))

\* String.prototype.localeCompare on upper-case words: <0, 0, >0
localeCompare(a, b) == IF a = b THEN 0 ELSE IF StrLess(a, b) THEN -1 ELSE 1

startsWith(s, p) == Len(p) <= Len(s) /\ SubSeq(s, 1, Len(p)) = p
endsWith(s, p) == Len(p) <= Len(s) /\ SubSeq(s, Len(s) - Len(p) + 1, Len(s)) = p
\* String.prototype.includes: p occurs in s as a contiguous substring
includes(s, p) ==
    \E i \in 0..(Len(s) - Len(p)) : SubSeq(s, i + 1, i + Len(p)) = p

\* Array.prototype.sort with a comparator (stable since ES2019): an element
\* goes after every element that compares less, and after the earlier
\* elements that compare equal.  cmp[i, j] is the comparator's value on
\* (s[i], s[j]).
SortWith(s, cmp) ==
    LET n == Len(s)
        pos(i) == 1 + Cardinality({j \in 1..n :
                        \/ cmp[j, i] < 0
                        \/ cmp[j, i] = 0 /\ j < i})
    IN [k \in 1..n |-> s[CHOOSE i \in 1..n : pos(i) = k]]

\* Array.prototype.sort without a comparator, on strings
DefaultSort(s) ==
    SortWith(s, [i \in 1..Len(s), j \in 1..Len(s) |-> localeCompare(s[i], s[j])])

\* the keys of an object, in one fixed enumeration order
RECURSIVE SetToSeq(_)
SetToSeq(S) ==
    IF S = {} THEN <<>>
    ELSE LET x == CHOOSE y \in S : TRUE
         IN <<x>> \o SetToSeq(S \ {x})

RECURSIVE SumSeq(_)
SumSeq(s) == IF s = <<>> THEN 0 ELSE s[1] + SumSeq(Tail(s))

RECURSIVE Repeat(_, _)
Repeat(x, n) == IF n <= 0 THEN <<>> ELSE <<x>> \o Repeat(x, n - 1)

RECURSIVE Flatten(_)
Flatten(ss) == IF ss = <<>> THEN <<>> ELSE ss[1] \o Flatten(Tail(ss))

(***************************************************************************)
(* words.js: letter multisets.                                             *)
(***************************************************************************)
getLetterCounts(word) ==
    [letter \in Range(word) |->
        Cardinality({i \in 1..Len(word) : word[i] = letter})]

\* counts[letter] || 0
CountOf(counts, letter) ==
    IF letter \in DOMAIN counts THEN counts[letter] ELSE 0

\* the sum of an object's values
Total(counts) ==
    LET keys == SetToSeq(DOMAIN counts)
    IN SumSeq([i \in 1..Len(keys) |-> counts[keys[i]]])

\* the containment loop failing on equal counts as well
ContainedInWithRoom(a, b) ==
    \A letter \in DOMAIN a :
        ~(CountOf(b, letter) = 0 \/ a[letter] >= CountOf(b, letter))

\* the loop "for letter in a: if (!b[letter] || a[letter] > b[letter]) fail"
\* shared by isStrictSubset, findMergeSteals and findMergeStealsTo
ContainedIn(a, b) ==
    \A letter \in DOMAIN a :
        ~(CountOf(b, letter) = 0 \/ a[letter] > CountOf(b, letter))

\* the subset test without strictness: equal totals pass
isSubsetOrEqual(smallerCounts, largerCounts) ==
    LET largerTotal == Total(largerCounts)
        smallerTotal == Total(smallerCounts)
    IN IF ~ContainedIn(smallerCounts, largerCounts) THEN FALSE
       ELSE smallerTotal <= largerTotal

isStrictSubset(smallerCounts, largerCounts) ==
    LET largerTotal == Total(largerCounts)
        smallerTotal == Total(smallerCounts)
    IN IF ~ContainedIn(smallerCounts, largerCounts) THEN FALSE
       ELSE smallerTotal < largerTotal

\* getAddedLetters without the inner loop: one copy of each letter whose count grew
getAddedLettersOnce(smallerCounts, largerCounts) ==
    LET keys == SetToSeq(DOMAIN largerCounts)
        added == Flatten([i \in 1..Len(keys) |->
                    IF largerCounts[keys[i]] - CountOf(smallerCounts, keys[i]) > 0
                    THEN <<keys[i]>> ELSE <<>>])
        chars == [i \in 1..Len(added) |-> <<added[i]>>]
    IN Flatten(DefaultSort(chars))

getAddedLetters(smallerCounts, largerCounts) ==
    LET keys == SetToSeq(DOMAIN largerCounts)
        added == Flatten([i \in 1..Len(keys) |->
                    Repeat(keys[i],
                           largerCounts[keys[i]] - CountOf(smallerCounts, keys[i]))])
        chars == [i \in 1..Len(added) |-> <<added[i]>>]
    IN Flatten(DefaultSort(chars))

combineLetterCounts(counts1, counts2) ==
    [letter \in DOMAIN counts1 \cup DOMAIN counts2 |->
        CountOf(counts1, letter) + CountOf(counts2, letter)]

\* the two words tested one by one, not combined
isEachStrictSubset(counts1, counts2, targetCounts) ==
    isStrictSubset(counts1, targetCounts) /\ isStrictSubset(counts2, targetCounts)

isCombinedStrictSubset(counts1, counts2, targetCounts) ==
    isStrictSubset(combineLetterCounts(counts1, counts2), targetCounts)

(***************************************************************************)
(* words.js: etymology tags.  A tag is the string "<language>:<root>"; the *)
(* characters outside ASCII are named by their code point ("U+0101" is     *)
(* a-macron, "U+0304" the combining macron).                               *)
(***************************************************************************)
\* String.prototype.split(':')
RECURSIVE split(_)
split(s) ==
    IF \A i \in 1..Len(s) : s[i] # ":" THEN <<s>>
    ELSE LET k == CHOOSE i \in 1..Len(s) :
                      s[i] = ":" /\ \A j \in 1..(i - 1) : s[j] # ":"
         IN <<SubSeq(s, 1, k - 1)>> \o split(SubSeq(s, k + 1, Len(s)))

\* const [lang, root] = tag.split(':'); an undefined root is the empty string
\* here: the code only tests it for truthiness
LangOf(tag) == split(tag)[1]
RootOf(tag) == IF Len(split(tag)) >= 2 THEN split(tag)[2] ELSE <<>>

toLowerCase(c) ==
    CASE c = "C" -> "c" [] c = "A" -> "a" [] c = "S" -> "s" [] c = "U" -> "u"
      [] c = "U+0100" -> "U+0101"
      [] OTHER -> c

\* canonical decomposition of one character
NFD(c) ==
    CASE c = "U+0101" -> <<"a", "U+0304">>
      [] c = "U+0100" -> <<"A", "U+0304">>
      [] OTHER -> <<c>>

\* the range [U+0300-U+036F]
IsCombiningMark(c) == c \in {"U+0304"}

\* root.toLowerCase().normalize('NFD').replace(/[U+0300-U+036F]/g, '')
normalizeRoot(root) ==
    LET lower == [i \in 1..Len(root) |-> toLowerCase(root[i])]
        nfd == Flatten([i \in 1..Len(lower) |-> NFD(lower[i])])
    IN SelectSeq(nfd, LAMBDA c : ~IsCombiningMark(c))

\* minimum length of both normalized roots for the suffix comparison
MIN_ROOT_LENGTH == 3

\* the comparison without the minimum root length
etymologiesMatchAnyLength(etym1, etym2) ==
    IF etym1 = etym2 THEN TRUE
    ELSE LET lang1 == LangOf(etym1)
             root1 == RootOf(etym1)
             lang2 == LangOf(etym2)
             root2 == RootOf(etym2)
         IN IF lang1 = lang2 /\ root1 # <<>> /\ root2 # <<>>
            THEN LET r1 == normalizeRoot(root1)
                     r2 == normalizeRoot(root2)
                 IN endsWith(r2, r1) \/ endsWith(r1, r2)
            ELSE FALSE

etymologiesMatch(etym1, etym2) ==
    IF etym1 = etym2 THEN TRUE
    ELSE LET lang1 == LangOf(etym1)
             root1 == RootOf(etym1)
             lang2 == LangOf(etym2)
             root2 == RootOf(etym2)
         IN IF lang1 = lang2 /\ root1 # <<>> /\ root2 # <<>>
            THEN LET r1 == normalizeRoot(root1)
                     r2 == normalizeRoot(root2)
                 IN Len(r1) >= MIN_ROOT_LENGTH /\ Len(r2) >= MIN_ROOT_LENGTH
                    /\ (endsWith(r2, r1) \/ endsWith(r1, r2))
            ELSE FALSE

\* shareEtymology taking an empty tag list for a missing entry
shareEtymologyEmptyUnknown(etym, word1, word2) ==
    IF word1 \in DOMAIN etym /\ word2 \in DOMAIN etym
       /\ etym[word1] # <<>> /\ etym[word2] # <<>>
    THEN IF \E i \in 1..Len(etym[word1]) : \E j \in 1..Len(etym[word2]) :
                etymologiesMatch(etym[word1][i], etym[word2][j])
         THEN "true"
         ELSE "false"
    ELSE "null"

\* shareEtymology against a given etymology table: "true", "false" or "null"
shareEtymologyIn(etym, word1, word2) ==
    IF word1 \in DOMAIN etym /\ word2 \in DOMAIN etym
    THEN IF \E i \in 1..Len(etym[word1]) : \E j \in 1..Len(etym[word2]) :
                etymologiesMatch(etym[word1][i], etym[word2][j])
         THEN "true"
         ELSE "false"
    ELSE "null"

(***************************************************************************)
(* words.js: the inflection and compound classifiers.                      *)
(***************************************************************************)
INFLECTION_SUFFIXES ==
    {<<"S">>, <<"E", "S">>, <<"E", "D">>, <<"D">>, <<"I", "N", "G">>,
     <<"E", "R">>, <<"E", "S", "T">>, <<"L", "Y">>, <<"N", "E", "S", "S">>,
     <<"M", "E", "N", "T">>, <<"A", "B", "L", "E">>,
     <<"I", "B", "L", "E">>, <<"T", "I", "O", "N">>,
     <<"S", "I", "O", "N">>, <<"F", "U", "L">>, <<"L", "E", "S", "S">>,
     <<"I", "S", "H">>, <<"I", "Z", "E">>, <<"I", "S", "E">>, <<"E", "N">>,
     <<"L", "E", "T">>, <<"L", "E", "T", "S">>, <<"Y">>, <<"I", "E", "R">>,
     <<"I", "E", "S", "T">>}

INFLECTION_PREFIXES ==
    {<<"U", "N">>, <<"R", "E">>, <<"P", "R", "E">>, <<"D", "E">>,
     <<"D", "I", "S">>, <<"M", "I", "S">>, <<"N", "O", "N">>,
     <<"O", "V", "E", "R">>, <<"U", "N", "D", "E", "R">>,
     <<"O", "U", "T">>, <<"S", "U", "B">>, <<"S", "E", "M", "I">>,
     <<"A", "N", "T", "I">>, <<"M", "I", "D">>, <<"B", "I">>,
     <<"T", "R", "I">>}

DOUBLE_CONSONANTS ==
    {"B", "C", "D", "F", "G", "K", "L", "M", "N", "P", "R", "S", "T", "V", "Z"}

\* isInflection trusting the etymology table: a known "no shared etymology"
\* skips the affix patterns
isInflectionEtymologyDecides(etym, baseWord, resultWord) ==
    LET etymResult == shareEtymologyIn(etym, baseWord, resultWord)
        suffix == SubSeq(resultWord, Len(baseWord) + 1, Len(resultWord))
        prefix == SubSeq(resultWord, 1, Len(resultWord) - Len(baseWord))
    IN IF etymResult # "null" THEN etymResult = "true"
       ELSE IF startsWith(resultWord, baseWord)
               /\ \/ suffix \in INFLECTION_SUFFIXES
                  \/ /\ Len(suffix) >= 2
                     /\ suffix[1] \in DOUBLE_CONSONANTS
                     /\ endsWith(baseWord, <<suffix[1]>>)
                     /\ Tail(suffix) \in INFLECTION_SUFFIXES
            THEN TRUE
       ELSE IF endsWith(resultWord, baseWord) /\ prefix \in INFLECTION_PREFIXES
            THEN TRUE
       ELSE FALSE

isInflectionIn(etym, baseWord, resultWord) ==
    LET etymResult == shareEtymologyIn(etym, baseWord, resultWord)
        suffix == SubSeq(resultWord, Len(baseWord) + 1, Len(resultWord))
        prefix == SubSeq(resultWord, 1, Len(resultWord) - Len(baseWord))
    IN IF etymResult = "true" THEN TRUE
       ELSE IF startsWith(resultWord, baseWord)
               /\ \/ suffix \in INFLECTION_SUFFIXES
                  \/ /\ Len(suffix) >= 2
                     /\ suffix[1] \in DOUBLE_CONSONANTS
                     /\ endsWith(baseWord, <<suffix[1]>>)
                     /\ Tail(suffix) \in INFLECTION_SUFFIXES
            THEN TRUE
       ELSE IF endsWith(resultWord, baseWord) /\ prefix \in INFLECTION_PREFIXES
            THEN TRUE
       ELSE FALSE

\* the compound test looking for the first word only
isCompoundContainingFirst(word1, word2, resultWord) ==
    includes(resultWord, word1)

isCompoundContaining(word1, word2, resultWord) ==
    includes(resultWord, word1) \/ includes(resultWord, word2)

(***************************************************************************)
(* The words and etymology tables the inputs are drawn from.               *)
(***************************************************************************)
wCAT == <<"C", "A", "T">>
wCATS == <<"C", "A", "T", "S">>
wACTS == <<"A", "C", "T", "S">>
wRISE == <<"R", "I", "S", "E">>
wCASE == <<"C", "A", "S", "E">>
wSTAR == <<"S", "T", "A", "R">>
wSTARS == <<"S", "T", "A", "R", "S">>
wSTAIRCASE == <<"S", "T", "A", "I", "R", "C", "A", "S", "E">>
wCHARACTERISTIC ==
    <<"C", "H", "A", "R", "A", "C", "T", "E", "R", "I", "S", "T", "I", "C">>

\* words of the larger dictionary files only
wCHAR == <<"C", "H", "A", "R">>
wCHAT == <<"C", "H", "A", "T">>
wCHART == <<"C", "H", "A", "R", "T">>
wSTARRY == <<"S", "T", "A", "R", "R", "Y">>
wUNCASE == <<"U", "N", "C", "A", "S", "E">>
wCART == <<"C", "A", "R", "T">>

Pool ==
    {wCAT, wCATS, wACTS, wRISE, wCASE, wSTAR, wSTARS, wSTAIRCASE, wCHARACTERISTIC}

\* the reference words the searches are called with
RefWords == Pool \cup {wCART}

\* the maxResults arguments the merge searches are called with
Caps == 0..MaxCap \cup {DEFAULT_MAX_RESULTS}

\* four larger dictionary files, two with a repeated line
LargerFiles ==
    {<<wRISE, wCHART, wCATS, wCHAR, wACTS, wCHAT, wSTAIRCASE, wRISE,
       wCHARACTERISTIC, wSTAR>>,
     <<wCHARACTERISTIC, wSTAR, wCAT, wCHAT, wCASE, wSTAIRCASE, wACTS,
       wCHART, wRISE, wCATS>>,
     <<wSTARRY, wCAT, wUNCASE, wSTAR, wCATS, wCASE, wSTARS, wSTAIRCASE>>,
     <<wCART, wCHARACTERISTIC, wCART, wRISE>>}

\* the word lines of a fetched dictionary file, duplicates included: every
\* file of up to MaxDictSize lines over Pool, and the larger files
WordFiles == UNION {[1..n -> Pool] : n \in 0..MaxDictSize} \cup LargerFiles

\* the word pairs getSharedEtymologies is called with
ComparePairs ==
    {<<wCASE, wSTAIRCASE>>, <<wSTAR, wSTARS>>, <<wCART, wCHARACTERISTIC>>,
     <<wCHARACTERISTIC, wCART>>, <<wCATS, wSTAR>>, <<wCAT, wSTAR>>,
     <<wCASE, wSTAR>>, <<wSTAR, wUNCASE>>}

\* the texts checkWord is called with
CheckInputs ==
    {<<" ", " ">>,
     <<" ", "c", "a", "t", "s">>,
     <<"C", "a", "t", " ">>,
     <<"R", "I", "S", "E">>}

\* no etymology.json
NoEtymology == [word \in {} |-> <<>>]
\* an etymology.json with an accented root, unknown roots and an empty list
SomeEtymology ==
    [word \in {wCASE, wSTAIRCASE, wSTAR, wSTARS, wCATS, wUNCASE, wCHART,
               wCHARACTERISTIC, wCART, wCHAT} |->
        CASE word = wCASE -> <<<<"l", "a", ":", "c", "U+0101", "s", "u", "s">>>>
          [] word = wSTAIRCASE -> <<<<"e", "n", ":", "s", "t", "a", "i", "r">>, <<"l", "a", ":", "C", "a", "s", "u", "s">>>>
          [] word = wSTAR -> <<<<"e", "n", ":", "-">>>>
          [] word = wSTARS -> <<<<"e", "n", ":", "-">>>>
          [] word = wCATS -> <<>>
          [] word = wUNCASE -> <<<<"e", "n", ":", "u", "n", "-">>>>
          [] word = wCHART -> <<<<"l", "a", ":", "c", "h", "a", "r", "t", "a">>>>
          [] word = wCHARACTERISTIC ->
                <<<<"g", "r", "c", ":", "k", "h", "a", "r", "a", "k", "t", "e", "r">>,
                  <<"l", "a", ":", "c", "h", "a", "r", "t", "a">>,
                  <<"f", "r", ":", "-">>>>
          [] word = wCHAT -> <<<<"f", "r", ":", "-">>>>
          [] word = wCART ->
                <<<<"l", "a", ":", "c", "h", "a", "r", "t", "a">>,
                  <<"l", "a", ":", "C", "h", "a", "r", "t", "a">>,
                  <<"l", "a", ":", "a", "r", "t", "a">>>>]

EtymologyFiles == {NoEtymology, SomeEtymology}

(***************************************************************************)
(* state.js: the module state.                                             *)
(***************************************************************************)
VARIABLES
    dictionary,     \* Set of words
    wordList,       \* Array.from(dictionary)
    etymology,      \* word -> list of tags
    isLoaded,
    call,           \* the search call in progress or last made
    result,         \* the value that call returned
    wordHistory,    \* the words visited, oldest first
    historyIndex,   \* index into wordHistory, counted from 0; -1 when empty
    isNavigating,
    inFlight,       \* the navigations awaiting their search
    wordInput,      \* wordInput.value
    buttons         \* the disabled flags of the back and forward buttons

dictVars == <<dictionary, wordList, etymology, isLoaded>>
navVars == <<wordHistory, historyIndex, isNavigating, inFlight, wordInput,
             buttons>>
vars == <<dictionary, wordList, etymology, isLoaded, call, result,
          wordHistory, historyIndex, isNavigating, inFlight, wordInput,
          buttons>>

getWordList == wordList
getEtymology == etymology
getDictionary == dictionary
getIsLoaded == isLoaded

shareEtymology(word1, word2) == shareEtymologyIn(getEtymology, word1, word2)
isInflection(baseWord, resultWord) ==
    isInflectionIn(getEtymology, baseWord, resultWord)

\* an array keeping the repeated lines of the file
ArrayFromLines(words) == words

\* Array.from(new Set(words)): the first occurrence of each word, in order
ArrayFromSet(words) ==
    Flatten([i \in 1..Len(words) |->
                IF \E j \in 1..(i - 1) : words[j] = words[i]
                THEN <<>> ELSE <<words[i]>>])

(***************************************************************************)
(* etymology.js: getSharedEtymologies.                                     *)
(***************************************************************************)
\* the loop body recording the first word's tag for every match
SharedTagFirst(etym1, etym2) ==
    IF etymologiesMatch(etym1, etym2) THEN <<etym1>> ELSE <<>>

\* the body of the two loops: what one pair of tags pushes to `shared`
SharedTag(etym1, etym2) ==
    IF etym1 = etym2 THEN <<etym1>>
    ELSE LET lang1 == LangOf(etym1)
             root1 == RootOf(etym1)
             lang2 == LangOf(etym2)
             root2 == RootOf(etym2)
         IN IF lang1 = lang2 /\ root1 # <<>> /\ root2 # <<>>
            THEN LET r1 == normalizeRoot(root1)
                     r2 == normalizeRoot(root2)
                 IN IF Len(r1) >= 3 /\ Len(r2) >= 3
                       /\ (endsWith(r2, r1) \/ endsWith(r1, r2))
                    THEN <<IF Len(r1) <= Len(r2) THEN etym1 ELSE etym2>>
                    ELSE <<>>
            ELSE <<>>

\* `shared` after the loops over the two tag lists
SharedOf(etymList1, etymList2) ==
    Flatten([i \in 1..Len(etymList1) |->
                Flatten([j \in 1..Len(etymList2) |->
                            SharedTag(etymList1[i], etymList2[j])])])

getSharedEtymologies(word1, word2) ==
    IF word1 \in DOMAIN getEtymology /\ word2 \in DOMAIN getEtymology
    THEN ArrayFromSet(SharedOf(getEtymology[word1], getEtymology[word2]))
    ELSE <<>>

(***************************************************************************)
(* words.js: checkWord.  The input is the text as typed: it may hold       *)
(* blanks and lower-case letters.                                          *)
(***************************************************************************)
WHITESPACE == {" "}

\* String.prototype.trim: the blanks at both ends removed
trim(s) ==
    LET kept == {i \in 1..Len(s) : s[i] \notin WHITESPACE}
    IN IF kept = {} THEN <<>>
       ELSE SubSeq(s, CHOOSE i \in kept : \A j \in kept : i <= j,
                      CHOOSE i \in kept : \A j \in kept : i >= j)

toUpperCaseChar(c) ==
    CASE c = "a" -> "A" [] c = "c" -> "C" [] c = "e" -> "E" [] c = "i" -> "I"
      [] c = "r" -> "R" [] c = "s" -> "S" [] c = "t" -> "T"
      [] OTHER -> c

\* String.prototype.toUpperCase
toUpperCase(s) == [i \in 1..Len(s) |-> toUpperCaseChar(s[i])]

\* word.trim().toUpperCase()
normalizedWord(word) == toUpperCase(trim(word))

\* checkWord looking the word up before testing its length
checkWordLookupFirst(word) ==
    IF normalizedWord(word) = <<>> \/ ~getIsLoaded THEN "null"
    ELSE IF normalizedWord(word) \in getDictionary THEN "valid"
    ELSE IF Len(normalizedWord(word)) < MIN_WORD_LENGTH THEN "too_short"
    ELSE "invalid"

\* checkWord: 'too_short', 'valid', 'invalid', or "null" for null
checkWord(word) ==
    IF normalizedWord(word) = <<>> \/ ~getIsLoaded THEN "null"
    ELSE IF Len(normalizedWord(word)) < MIN_WORD_LENGTH THEN "too_short"
    ELSE IF normalizedWord(word) \in getDictionary THEN "valid"
    ELSE "invalid"

(***************************************************************************)
(* steals.js: single-word steals.                                          *)
(***************************************************************************)
\* a length test that lets every word through
neverTooShort(word) == FALSE

\* word.length < MIN_WORD_LENGTH: the word is no candidate
tooShort(word) == Len(word) < MIN_WORD_LENGTH

\* the comparator with the direction's lengthMultiplier left out: shorter
\* words first in both directions
StealCompareAscending(a, b, lengthMultiplier) ==
    IF a.invalid # b.invalid THEN (IF a.invalid THEN 1 ELSE -1)
    ELSE IF Len(a.word) # Len(b.word) THEN Len(a.word) - Len(b.word)
    ELSE localeCompare(a.word, b.word)

\* the comparator of findStealsCore's sort
StealCompare(a, b, lengthMultiplier) ==
    IF a.invalid # b.invalid THEN (IF a.invalid THEN 1 ELSE -1)
    ELSE IF Len(a.word) # Len(b.word)
         THEN (Len(a.word) - Len(b.word)) * lengthMultiplier
    ELSE localeCompare(a.word, b.word)

\* 'from' wants shorter candidates, 'to' wants longer
validLength(direction, word, referenceWord) ==
    IF direction = "from" THEN Len(word) < Len(referenceWord)
    ELSE Len(word) > Len(referenceWord)

\* [smallerCounts, largerCounts] of the subset check
SubsetArgs(direction, wordCounts, referenceCounts) ==
    IF direction = "from"
    THEN [smallerCounts |-> wordCounts, largerCounts |-> referenceCounts]
    ELSE [smallerCounts |-> referenceCounts, largerCounts |-> wordCounts]

\* the inflection check with the candidate always taken as the base word
InflectionArgsCandidateFirst(direction, word, referenceWord) ==
    [baseWord |-> word, resultWord |-> referenceWord]

\* the inflection check with the reference word always taken as the base word
InflectionArgsReferenceFirst(direction, word, referenceWord) ==
    [baseWord |-> referenceWord, resultWord |-> word]

\* [baseWord, resultWord] of the inflection check
InflectionArgs(direction, word, referenceWord) ==
    IF direction = "from"
    THEN [baseWord |-> word, resultWord |-> referenceWord]
    ELSE [baseWord |-> referenceWord, resultWord |-> word]

\* the loop of findStealsCore over the word list: the results in scan order
StealScan(wl, etym, referenceWord, direction) ==
    LET referenceCounts == getLetterCounts(referenceWord)
        entry(word) ==
            LET wordCounts == getLetterCounts(word)
                sub == SubsetArgs(direction, wordCounts, referenceCounts)
                inf == InflectionArgs(direction, word, referenceWord)
            IN IF tooShort(word) THEN <<>>
               ELSE IF ~validLength(direction, word, referenceWord) THEN <<>>
               ELSE IF isStrictSubset(sub.smallerCounts, sub.largerCounts)
                    THEN <<[word |-> word,
                            addedLetters |->
                                getAddedLetters(sub.smallerCounts, sub.largerCounts),
                            invalid |->
                                isInflectionIn(etym, inf.baseWord, inf.resultWord)]>>
               ELSE <<>>
    IN Flatten([i \in 1..Len(wl) |-> entry(wl[i])])

\* results.sort(...) of findStealsCore
SortSteals(results, lengthMultiplier) ==
    SortWith(results,
             [i \in 1..Len(results), j \in 1..Len(results) |->
                 StealCompare(results[i], results[j], lengthMultiplier)])

findStealsCoreIn(wl, etym, referenceWord, direction) ==
    SortSteals(StealScan(wl, etym, referenceWord, direction),
               IF direction = "from" THEN -1 ELSE 1)

findStealsCore(referenceWord, direction) ==
    findStealsCoreIn(getWordList, getEtymology, referenceWord, direction)

\* .map(({ word, addedLetters, invalid }) => ({ baseWord: word, ... }))
MapToBaseWord(found) ==
    [i \in 1..Len(found) |->
        [baseWord |-> found[i].word,
         addedLetters |-> found[i].addedLetters,
         invalid |-> found[i].invalid]]

\* .map(({ word, addedLetters, invalid }) => ({ resultWord: word, ... }))
MapToResultWord(found) ==
    [i \in 1..Len(found) |->
        [resultWord |-> found[i].word,
         addedLetters |-> found[i].addedLetters,
         invalid |-> found[i].invalid]]

findStealsFrom(targetWord) == MapToBaseWord(findStealsCore(targetWord, "from"))

findStealsTo(sourceWord) == MapToResultWord(findStealsCore(sourceWord, "to"))

(***************************************************************************)
(* steals.js: merge to make the target word.                               *)
(***************************************************************************)
\* the cap test passing one result too many
capExceeded(results, maxResults) == Len(results) > maxResults

\* the cap test stopping one result early
capNearlyReached(results, maxResults) == Len(results) >= maxResults - 1

\* results.length >= maxResults: the loops break
capReached(results, maxResults) == Len(results) >= maxResults

\* the candidate filter with its upper length test off by one
candidateWordsShorter(wl, targetWord) ==
    LET targetCounts == getLetterCounts(targetWord)
        targetLength == Len(targetWord)
    IN SelectSeq(wl, LAMBDA word :
          /\ ~(tooShort(word)
               \/ Len(word) >= targetLength - MIN_WORD_LENGTH - 1)
          /\ ContainedIn(getLetterCounts(word), targetCounts))

\* the first loop of findMergeSteals: the candidate words, in word-list order
candidateWords(wl, targetWord) ==
    LET targetCounts == getLetterCounts(targetWord)
        targetLength == Len(targetWord)
    IN SelectSeq(wl, LAMBDA word :
          /\ ~(tooShort(word)
               \/ Len(word) > targetLength - MIN_WORD_LENGTH - 1)
          /\ ContainedIn(getLetterCounts(word), targetCounts))

\* [word1, word2].sort().join('|')
PairKey(word1, word2) ==
    LET sorted == DefaultSort(<<word1, word2>>)
    IN sorted[1] \o <<"|">> \o sorted[2]

\* the pair loop of findMergeSteals from (i, j) on
RECURSIVE MergeScan(_, _, _, _, _, _, _)
MergeScan(cands, targetWord, maxResults, i, j, results, seen) ==
    IF i > Len(cands) THEN results
    ELSE IF j > Len(cands)
         THEN MergeScan(cands, targetWord, maxResults, i + 1, i + 2, results, seen)
    ELSE IF capReached(results, maxResults) THEN results
    ELSE LET word1 == cands[i]
             word2 == cands[j]
             counts1 == getLetterCounts(word1)
             counts2 == getLetterCounts(word2)
             targetCounts == getLetterCounts(targetWord)
             key == PairKey(word1, word2)
             found == [word1 |-> word1,
                       word2 |-> word2,
                       addedLetters |->
                           getAddedLetters(combineLetterCounts(counts1, counts2),
                                           targetCounts),
                       invalid |-> isCompoundContaining(word1, word2, targetWord)]
         IN IF Len(word1) + Len(word2) >= Len(targetWord)
            THEN MergeScan(cands, targetWord, maxResults, i, j + 1, results, seen)
            ELSE IF isCombinedStrictSubset(counts1, counts2, targetCounts)
                    /\ key \notin seen
                 THEN MergeScan(cands, targetWord, maxResults, i, j + 1,
                                Append(results, found), seen \cup {key})
            ELSE MergeScan(cands, targetWord, maxResults, i, j + 1, results, seen)

\* the comparator with one more key: ties broken alphabetically by word2
MergeCompareByWord2(a, b) ==
    LET aTotal == Len(a.word1) + Len(a.word2)
        bTotal == Len(b.word1) + Len(b.word2)
    IN IF a.invalid # b.invalid THEN (IF a.invalid THEN 1 ELSE -1)
       ELSE IF bTotal # aTotal THEN bTotal - aTotal
       ELSE IF a.word1 # b.word1 THEN localeCompare(a.word1, b.word1)
       ELSE localeCompare(a.word2, b.word2)

\* the comparator of findMergeSteals's sort
MergeCompare(a, b) ==
    LET aTotal == Len(a.word1) + Len(a.word2)
        bTotal == Len(b.word1) + Len(b.word2)
    IN IF a.invalid # b.invalid THEN (IF a.invalid THEN 1 ELSE -1)
       ELSE IF bTotal # aTotal THEN bTotal - aTotal
       ELSE localeCompare(a.word1, b.word1)

\* findMergeSteals before its final sort
MergeFound(wl, targetWord, maxResults) ==
    IF Len(targetWord) < MIN_MERGE_LENGTH THEN <<>>
    ELSE MergeScan(candidateWords(wl, targetWord), targetWord, maxResults,
                   1, 2, <<>>, {})

\* results.sort(...) of findMergeSteals
SortMerges(results) ==
    SortWith(results,
             [i \in 1..Len(results), j \in 1..Len(results) |->
                 MergeCompare(results[i], results[j])])

\* findMergeSteals collecting every pair, sorting, and keeping the best
\* maxResults
findMergeStealsBestFirst(wl, targetWord, maxResults) ==
    LET sorted == SortMerges(MergeFound(wl, targetWord, Len(wl) * Len(wl) + 1))
    IN SubSeq(sorted, 1, IF Len(sorted) < maxResults THEN Len(sorted)
                         ELSE maxResults)

findMergeStealsIn(wl, targetWord, maxResults) ==
    SortMerges(MergeFound(wl, targetWord, maxResults))

findMergeSteals(targetWord, maxResults) ==
    findMergeStealsIn(getWordList, targetWord, maxResults)

(***************************************************************************)
(* steals.js: merge the source word with another word.                     *)
(***************************************************************************)
\* the letters of the target with the source's letters left in
remainingCountsWhole(targetCounts, sourceCounts) == targetCounts

\* targetCounts minus sourceCounts, the letters left over only
remainingCounts(targetCounts, sourceCounts) ==
    [letter \in {l \in DOMAIN targetCounts :
                    targetCounts[l] - CountOf(sourceCounts, l) > 0} |->
        targetCounts[letter] - CountOf(sourceCounts, letter)]

\* the target-length window without its upper limit
TargetLongEnough(targetLength, sourceLength) ==
    ~(targetLength < sourceLength + MIN_WORD_LENGTH + 1)

\* the window with its upper limit excluded
TargetInOpenWindow(targetLength, sourceLength) ==
    /\ ~(targetLength < sourceLength + MIN_WORD_LENGTH + 1)
    /\ ~(targetLength >= sourceLength + MERGE_TO_WINDOW)

\* the two length tests of findMergeStealsTo on targetWord: neither continues
TargetInWindow(targetLength, sourceLength) ==
    /\ ~(targetLength < sourceLength + MIN_WORD_LENGTH + 1)
    /\ ~(targetLength > sourceLength + MERGE_TO_WINDOW)

\* the loops of findMergeStealsTo: t is the index of targetWord, o the index
\* of otherWord, o = 0 at the head of an iteration of the outer loop
RECURSIVE MergeToScan(_, _, _, _, _, _)
MergeToScan(wl, sourceWord, maxResults, t, o, results) ==
    IF t > Len(wl) THEN results
    ELSE
    LET sourceCounts == getLetterCounts(sourceWord)
        sourceLength == Len(sourceWord)
        targetWord == wl[t]
        targetLength == Len(targetWord)
        targetCounts == getLetterCounts(targetWord)
        remaining == remainingCounts(targetCounts, sourceCounts)
        remainingLength == Total(remaining)
    IN IF o = 0
       THEN IF capReached(results, maxResults) THEN results
            ELSE IF ~TargetInWindow(targetLength, sourceLength)
                 THEN MergeToScan(wl, sourceWord, maxResults, t + 1, 0, results)
            ELSE IF ~ContainedIn(sourceCounts, targetCounts)
                 THEN MergeToScan(wl, sourceWord, maxResults, t + 1, 0, results)
            ELSE MergeToScan(wl, sourceWord, maxResults, t, 1, results)
       ELSE IF o > Len(wl) \/ capReached(results, maxResults)
            THEN MergeToScan(wl, sourceWord, maxResults, t + 1, 0, results)
       ELSE LET otherWord == wl[o]
                otherCounts == getLetterCounts(otherWord)
                addedLetters ==
                    getAddedLetters(combineLetterCounts(sourceCounts, otherCounts),
                                    targetCounts)
                found == [otherWord |-> otherWord,
                          addedLetters |-> addedLetters,
                          resultWord |-> targetWord,
                          invalid |->
                              isCompoundContaining(sourceWord, otherWord, targetWord)]
            IN IF tooShort(otherWord) \/ Len(otherWord) >= remainingLength
               THEN MergeToScan(wl, sourceWord, maxResults, t, o + 1, results)
               ELSE IF ContainedIn(otherCounts, remaining) /\ Len(addedLetters) > 0
                    THEN MergeToScan(wl, sourceWord, maxResults, t, o + 1,
                                     Append(results, found))
               ELSE MergeToScan(wl, sourceWord, maxResults, t, o + 1, results)

\* the comparator taking the shorter otherWord first
MergeToCompareOtherAscending(a, b) ==
    IF a.invalid # b.invalid THEN (IF a.invalid THEN 1 ELSE -1)
    ELSE IF Len(a.resultWord) # Len(b.resultWord)
         THEN Len(a.resultWord) - Len(b.resultWord)
    ELSE IF Len(b.otherWord) # Len(a.otherWord)
         THEN Len(a.otherWord) - Len(b.otherWord)
    ELSE localeCompare(a.resultWord, b.resultWord)

\* the comparator of findMergeStealsTo's sort
MergeToCompare(a, b) ==
    IF a.invalid # b.invalid THEN (IF a.invalid THEN 1 ELSE -1)
    ELSE IF Len(a.resultWord) # Len(b.resultWord)
         THEN Len(a.resultWord) - Len(b.resultWord)
    ELSE IF Len(b.otherWord) # Len(a.otherWord)
         THEN Len(b.otherWord) - Len(a.otherWord)
    ELSE localeCompare(a.resultWord, b.resultWord)

\* findMergeStealsTo before its final sort
MergeToFound(wl, sourceWord, maxResults) ==
    MergeToScan(wl, sourceWord, maxResults, 1, 0, <<>>)

\* results.sort(...) of findMergeStealsTo
SortMergesTo(results) ==
    SortWith(results,
             [i \in 1..Len(results), j \in 1..Len(results) |->
                 MergeToCompare(results[i], results[j])])

findMergeStealsToIn(wl, sourceWord, maxResults) ==
    SortMergesTo(MergeToFound(wl, sourceWord, maxResults))

findMergeStealsTo(sourceWord, maxResults) ==
    findMergeStealsToIn(getWordList, sourceWord, maxResults)

(***************************************************************************)
(* The state machine: the dictionary is loaded once, between calls; the    *)
(* searches are called once it is loaded, checkWord at any time; a search  *)
(* may be repeated with the same arguments before its result is dropped.   *)
(***************************************************************************)
NoCall == [op |-> "none", word |-> <<>>, maxResults |-> 0]

Init ==
    /\ dictionary = {}
    /\ wordList = <<>>
    /\ etymology = NoEtymology
    /\ isLoaded = FALSE
    /\ call = NoCall
    /\ result = <<>>
    /\ wordHistory = <<>>
    /\ historyIndex = -1
    /\ isNavigating = FALSE
    /\ inFlight = {}
    /\ wordInput = <<>>
    /\ buttons = [back |-> TRUE, forward |-> TRUE]

\* loadDictionary fetching some dictionary file `words` and some etymology
\* file `etym`: setDictionary, setEtymology, setIsLoaded(true)
loadDictionary ==
    /\ ~isLoaded
    /\ call = NoCall
    /\ \E words \in WordFiles, etym \in EtymologyFiles :
          /\ dictionary' = Range(words)
          /\ wordList' = ArrayFromSet(words)
          /\ etymology' = etym
    /\ isLoaded' = TRUE
    /\ UNCHANGED <<call, result>>
    /\ UNCHANGED navVars

\* the value a search call returns in the current state
Returned(c) ==
    CASE c.op = "findStealsFrom" -> findStealsFrom(c.word)
      [] c.op = "findStealsTo" -> findStealsTo(c.word)
      [] c.op = "findMergeSteals" -> findMergeSteals(c.word, c.maxResults)
      [] c.op = "findMergeStealsTo" -> findMergeStealsTo(c.word, c.maxResults)
      [] c.op = "getSharedEtymologies" -> getSharedEtymologies(c.word, c.other)

\* a search that sorts the shared word list in place
WordListSortedAfter(c) == DefaultSort(wordList)

\* what a search call leaves in the word list and the etymology table: the
\* searches only read them
WordListAfter(c) == wordList
EtymologyAfter(c) == etymology

Search(c) ==
    /\ call' = c
    /\ result' = Returned(c)
    /\ wordList' = WordListAfter(c)
    /\ etymology' = EtymologyAfter(c)
    /\ UNCHANGED <<dictionary, isLoaded>>
    /\ UNCHANGED navVars

CallFindStealsFrom(word) ==
    /\ isLoaded /\ call = NoCall
    /\ Search([op |-> "findStealsFrom", word |-> word, maxResults |-> 0])

CallFindStealsTo(word) ==
    /\ isLoaded /\ call = NoCall
    /\ Search([op |-> "findStealsTo", word |-> word, maxResults |-> 0])

CallFindMergeSteals(word, maxResults) ==
    /\ isLoaded /\ call = NoCall
    /\ Search([op |-> "findMergeSteals", word |-> word,
               maxResults |-> maxResults])

CallFindMergeStealsTo(word, maxResults) ==
    /\ isLoaded /\ call = NoCall
    /\ Search([op |-> "findMergeStealsTo", word |-> word,
               maxResults |-> maxResults])

\* getSharedEtymologies called with two words
CallGetSharedEtymologies(word1, word2) ==
    /\ call = NoCall
    /\ Search([op |-> "getSharedEtymologies", word |-> word1,
               maxResults |-> 0, other |-> word2])

\* checkWord called with the text `word`
CallCheckWord(word) ==
    /\ call = NoCall
    /\ call' = [op |-> "checkWord", word |-> word, maxResults |-> 0]
    /\ result' = checkWord(word)
    /\ UNCHANGED <<dictionary, wordList, etymology, isLoaded>>
    /\ UNCHANGED navVars

\* the same search called again with identical arguments
CallAgain ==
    /\ call.op \notin {"none", "checkWord"}
    /\ Search(call)

\* the caller is done with the result
DropResult ==
    /\ call # NoCall
    /\ call' = NoCall
    /\ result' = <<>>
    /\ UNCHANGED <<dictionary, wordList, etymology, isLoaded>>
    /\ UNCHANGED navVars

Next ==
    \/ loadDictionary
    \/ \E word \in RefWords : CallFindStealsFrom(word)
    \/ \E word \in RefWords : CallFindStealsTo(word)
    \/ \E word \in RefWords, maxResults \in Caps : CallFindMergeSteals(word, maxResults)
    \/ \E word \in RefWords, maxResults \in Caps : CallFindMergeStealsTo(word, maxResults)
    \/ \E pair \in ComparePairs : CallGetSharedEtymologies(pair[1], pair[2])
    \/ \E word \in CheckInputs : CallCheckWord(word)
    \/ CallAgain
    \/ DropResult

Spec == Init /\ [][Next]_vars

(***************************************************************************)
(* navigation.js: the history of visited words.  A navigation calls the    *)
(* search function and awaits it; while it waits, other handlers run.  The *)
(* search function either returns a promise, which settles later, or       *)
(* throws at once.                                                         *)
(***************************************************************************)
\* the texts addToHistory is called with
HistoryInputs ==
    {<<" ", " ">>, <<>>, <<" ", "c", "a", "t", "s">>, <<"C", "A", "T", "S">>,
     <<"R", "I", "S", "E">>}

\* the names of the navigations that can be awaiting their search
NavIds == 1..MaxInFlight

\* what the call of searchFn does
SearchStarts == {"awaits", "throws"}
\* how the promise of searchFn settles
SearchOutcomes == {"resolved", "rejected"}

undefined == <<"undefined">>
null == <<"null">>

getHistoryIndex == historyIndex
getHistoryLength == Len(wordHistory)
getIsNavigating == isNavigating

\* history[index]
HistoryWordIn(history, index) ==
    IF index + 1 \in DOMAIN history THEN history[index + 1] ELSE undefined

getHistoryWord(index) == HistoryWordIn(wordHistory, index)

\* wordHistory.slice(0, index + 1)
truncateHistoryAt(history, index) == SubSeq(history, 1, index + 1)

\* wordHistory.push(word)
pushToHistory(history, word) == Append(history, word)

\* the duplicate test switched off
isCurrentWordNever(currentWord, normalized) == FALSE

\* currentWord === normalizedWord
isCurrentWord(currentWord, normalized) == currentWord = normalized

\* the history addToHistory leaves, for the normalized word
HistoryAfterAdd(history, index, normalized) ==
    IF isCurrentWord(IF Len(history) > 0
                     THEN HistoryWordIn(
                              IF Len(history) > 0 /\ index < Len(history) - 1
                              THEN truncateHistoryAt(history, index)
                              ELSE history, index)
                     ELSE null,
                     normalized)
    THEN IF Len(history) > 0 /\ index < Len(history) - 1
         THEN truncateHistoryAt(history, index)
         ELSE history
    ELSE pushToHistory(IF Len(history) > 0 /\ index < Len(history) - 1
                       THEN truncateHistoryAt(history, index)
                       ELSE history,
                       normalized)

\* the index addToHistory leaves: pushToHistory moves it to the last entry
IndexAfterAdd(history, index, normalized) ==
    IF isCurrentWord(IF Len(history) > 0
                     THEN HistoryWordIn(
                              IF Len(history) > 0 /\ index < Len(history) - 1
                              THEN truncateHistoryAt(history, index)
                              ELSE history, index)
                     ELSE null,
                     normalized)
    THEN index
    ELSE Len(HistoryAfterAdd(history, index, normalized)) - 1

\* updateNavigationButtons: the disabled flags for a history and an index
updateNavigationButtons(history, index) ==
    [back |-> index <= 0, forward |-> index >= Len(history) - 1]

NavCall(op, word) == [op |-> op, word |-> word, maxResults |-> 0]

addToHistory(word) ==
    /\ call' = NavCall("addToHistory", word)
    /\ IF getIsNavigating \/ normalizedWord(word) = <<>>
       THEN UNCHANGED <<wordHistory, historyIndex, buttons>>
       ELSE /\ Len(HistoryAfterAdd(wordHistory, historyIndex,
                                   normalizedWord(word))) <= MaxHistory
            /\ wordHistory' = HistoryAfterAdd(wordHistory, historyIndex,
                                              normalizedWord(word))
            /\ historyIndex' = IndexAfterAdd(wordHistory, historyIndex,
                                             normalizedWord(word))
            /\ buttons' = updateNavigationButtons(wordHistory', historyIndex')
    /\ UNCHANGED <<isNavigating, inFlight, wordInput, result>>
    /\ UNCHANGED dictVars

\* the guard of navigateBack admitting the first entry
canGoBackFromFirst == getHistoryIndex >= 0

\* getHistoryIndex() > 0
canGoBack == getHistoryIndex > 0

\* the guard of navigateForward admitting the last entry
canGoForwardFromLast == getHistoryIndex < getHistoryLength

\* getHistoryIndex() < getHistoryLength() - 1
canGoForward == getHistoryIndex < getHistoryLength - 1

\* a navigation to index: up to the call of searchFn, and, when searchFn
\* throws at once, the finally block as well
Navigate(id, index, start) ==
    /\ historyIndex' = index
    /\ wordInput' = getHistoryWord(index)
    /\ IF start = "awaits"
       THEN /\ isNavigating' = TRUE
            /\ inFlight' = inFlight \cup {id}
            /\ UNCHANGED buttons
       ELSE /\ isNavigating' = FALSE
            /\ buttons' = updateNavigationButtons(wordHistory, index)
            /\ UNCHANGED inFlight
    /\ UNCHANGED wordHistory

navigateBack(id, start) ==
    /\ id \notin inFlight
    /\ call' = NavCall("navigateBack", <<>>)
    /\ IF canGoBack
       THEN Navigate(id, getHistoryIndex - 1, start)
       ELSE UNCHANGED navVars
    /\ UNCHANGED result
    /\ UNCHANGED dictVars

navigateForward(id, start) ==
    /\ id \notin inFlight
    /\ call' = NavCall("navigateForward", <<>>)
    /\ IF canGoForward
       THEN Navigate(id, getHistoryIndex + 1, start)
       ELSE UNCHANGED navVars
    /\ UNCHANGED result
    /\ UNCHANGED dictVars

\* a navigation whose flag is put back only when the search succeeds
flagAfterSearchResolvedOnly(outcome) ==
    IF outcome = "resolved" THEN FALSE ELSE isNavigating

\* finally { setIsNavigating(false); ... }: whatever the outcome
flagAfterSearch(outcome) == FALSE

\* the promise of navigation id's search settles: the finally block
searchSettles(id, outcome) ==
    /\ id \in inFlight
    /\ call' = NavCall("searchSettles", <<outcome>>)
    /\ inFlight' = inFlight \ {id}
    /\ isNavigating' = flagAfterSearch(outcome)
    /\ buttons' = updateNavigationButtons(wordHistory, historyIndex)
    /\ UNCHANGED <<wordHistory, historyIndex, wordInput, result>>
    /\ UNCHANGED dictVars

NavNext ==
    \/ \E word \in HistoryInputs : addToHistory(word)
    \/ \E id \in NavIds, start \in SearchStarts : navigateBack(id, start)
    \/ \E id \in NavIds, start \in SearchStarts : navigateForward(id, start)
    \/ \E id \in NavIds, outcome \in SearchOutcomes : searchSettles(id, outcome)

NavSpec == Init /\ [][NavNext]_vars

\* every search a navigation awaits settles
NavFairness ==
    \A id \in NavIds :
        WF_vars(\E outcome \in SearchOutcomes : searchSettles(id, outcome))

NavLive == Init /\ [][NavNext]_vars /\ NavFairness

(***************************************************************************)
(* Properties.  The notions of the claims are stated on words directly:    *)
(* Occ counts a letter in a word.                                          *)
(***************************************************************************)
Occ(word, c) == Cardinality({i \in 1..Len(word) : word[i] = c})

\* every letter of a occurs in b at least as often
SubMultiset(a, b) == \A c \in Range(a) : Occ(a, c) <= Occ(b, c)

\* a is a strict letter-subset of b
StrictSubMultiset(a, b) == SubMultiset(a, b) /\ Len(a) < Len(b)

\* a and b hold the same letters the same number of times
SameLetters(a, b) ==
    Len(a) = Len(b) /\ \A c \in Range(a) \cup Range(b) : Occ(a, c) = Occ(b, c)

Ascending(s) ==
    \A i \in 1..Len(s) : \A j \in (i + 1)..Len(s) : CharCode[s[i]] <= CharCode[s[j]]

IsStealCall == call.op \in {"findStealsFrom", "findStealsTo"}
IsMergeCall == call.op \in {"findMergeSteals", "findMergeStealsTo"}

\* the candidate word of an entry of a single-word steal result
Candidate(e) == IF call.op = "findStealsFrom" THEN e.baseWord ELSE e.resultWord
\* the shorter and the longer word of an entry of a single-word steal result
Shorter(e) == IF call.op = "findStealsFrom" THEN e.baseWord ELSE call.word
Longer(e) == IF call.op = "findStealsFrom" THEN call.word ELSE e.resultWord

\* C1: every entry of a findStealsFrom / findStealsTo result is sound: the
\* shorter word is a strict letter-subset of the longer one, the shorter
\* word's letters plus addedLetters are exactly the longer word's letters,
\* and addedLetters is sorted ascending and not empty.
C1_StealsSound ==
    IsStealCall =>
        \A i \in 1..Len(result) :
            LET e == result[i]
            IN /\ StrictSubMultiset(Shorter(e), Longer(e))
               /\ SameLetters(Shorter(e) \o e.addedLetters, Longer(e))
               /\ Ascending(e.addedLetters)
               /\ e.addedLetters # <<>>

\* a steal-from result with an entry that adds a letter twice
C1_Witness ==
    /\ call.op = "findStealsFrom"
    /\ \E i \in 1..Len(result) :
          \E c \in Range(result[i].addedLetters) :
              Occ(result[i].addedLetters, c) >= 2

\* the entries of the steal-to result r for b, of the steal-from result r for a
EntriesFor(r, b) == {r[i] : i \in {k \in 1..Len(r) : r[k].resultWord = b}}
EntriesOf(r, a) == {r[i] : i \in {k \in 1..Len(r) : r[k].baseWord = a}}

\* b is listed by findStealsTo(a), a by findStealsFrom(b)
ToEntries(a, b) == EntriesFor(findStealsTo(a), b)
FromEntries(a, b) == EntriesOf(findStealsFrom(b), a)

\* the two sets of entries agree: both empty or neither, with the same
\* addedLetters and invalid flag
Agree(to, from) ==
    /\ to # {} <=> from # {}
    /\ \A x \in to : \A y \in from :
          x.addedLetters = y.addedLetters /\ x.invalid = y.invalid

\* the entries for the pair (a, b) agree between the two searches
Symmetric(a, b) == Agree(ToEntries(a, b), FromEntries(a, b))

\* the dictionary pairs (a, b) one of whose words the steal call was about
PairsOfCall ==
    {p \in dictionary \X dictionary :
        /\ StrictSubMultiset(p[1], p[2])
        /\ \/ call.op = "findStealsTo" /\ call.word = p[1]
           \/ call.op = "findStealsFrom" /\ call.word = p[2]}

\* C2 as stated: for every dictionary pair (a, b) with a a strict
\* letter-subset of b, b is in findStealsTo(a) iff a is in findStealsFrom(b),
\* with the same addedLetters and invalid flag.
C2_SymmetryAllPairs ==
    IsStealCall => \A p \in PairsOfCall : Symmetric(p[1], p[2])

\* C2 amended: the same for the pairs whose shorter word a has at least
\* MIN_WORD_LENGTH letters; a shorter a is listed by neither findStealsFrom.
C2_SymmetryFromMinLength ==
    IsStealCall =>
        \A p \in PairsOfCall :
            Len(p[1]) >= MIN_WORD_LENGTH => Symmetric(p[1], p[2])

\* findStealsTo(a) was called for a dictionary word a of four letters or more
\* and lists a dictionary word b
C2_Witness ==
    /\ call.op = "findStealsTo"
    /\ Len(call.word) >= MIN_WORD_LENGTH
    /\ \E p \in PairsOfCall :
          /\ \E i \in 1..Len(result) : result[i].resultWord = p[2]
          /\ FromEntries(p[1], p[2]) # {}

\* the two merged words and the merge result of an entry of a merge search
MergedWords(e) ==
    IF call.op = "findMergeSteals" THEN e.word1 \o e.word2
    ELSE call.word \o e.otherWord
MergeResultWord(e) ==
    IF call.op = "findMergeSteals" THEN call.word ELSE e.resultWord

\* C3: for every entry of findMergeSteals(T, maxResults) the letters of
\* word1 and word2 together are a strict letter-subset of T, and word1,
\* word2 and addedLetters together hold exactly T's letters; addedLetters is
\* not empty.
C3_MergeInvariant ==
    call.op = "findMergeSteals" =>
        \A i \in 1..Len(result) :
            LET e == result[i]
            IN /\ StrictSubMultiset(e.word1 \o e.word2, call.word)
               /\ SameLetters(e.word1 \o e.word2 \o e.addedLetters, call.word)
               /\ e.addedLetters # <<>>

\* a merge-to-target result with two entries
C3_Witness ==
    call.op = "findMergeSteals" /\ Len(result) >= 2

\* C4: for every entry of findMergeStealsTo(source, maxResults), resultWord
\* and otherWord are dictionary words, source, otherWord and addedLetters
\* together hold exactly resultWord's letters, addedLetters is not empty and
\* len(resultWord) is in [len(source) + 5, len(source) + 10].
C4_MergeToSound ==
    call.op = "findMergeStealsTo" =>
        \A i \in 1..Len(result) :
            LET e == result[i]
            IN /\ e.resultWord \in dictionary
               /\ e.otherWord \in dictionary
               /\ SameLetters(call.word \o e.otherWord \o e.addedLetters,
                              e.resultWord)
               /\ e.addedLetters # <<>>
               /\ Len(e.resultWord) >= Len(call.word) + 5
               /\ Len(e.resultWord) <= Len(call.word) + 10

\* a merge-with-source result with an entry, from a dictionary that also
\* holds a word too long for the source's window which the source and another
\* dictionary word fit into
C4_Witness ==
    /\ call.op = "findMergeStealsTo"
    /\ Len(result) >= 1
    /\ \E long \in dictionary, other \in dictionary :
          /\ Len(long) > Len(call.word) + 10
          /\ Len(other) >= MIN_WORD_LENGTH
          /\ StrictSubMultiset(call.word \o other, long)

\* the candidate words of an entry of the result
CandidateWords(e) ==
    CASE call.op = "findStealsFrom" -> {e.baseWord}
      [] call.op = "findStealsTo" -> {e.resultWord}
      [] call.op = "findMergeSteals" -> {e.word1, e.word2}
      [] call.op = "findMergeStealsTo" -> {e.otherWord, e.resultWord}

\* C5: no result of the four searches holds a candidate word (baseWord,
\* resultWord, word1, word2, otherWord) shorter than MIN_WORD_LENGTH = 4, and
\* findMergeSteals returns the empty list for a word shorter than 9 letters.
C5_MinLengthGating ==
    IsStealCall \/ IsMergeCall =>
        /\ \A i \in 1..Len(result) :
              \A w \in CandidateWords(result[i]) : Len(w) >= 4
        /\ call.op = "findMergeSteals" /\ Len(call.word) < 9 => result = <<>>

\* a steal-from result with an entry, from a dictionary holding a word
\* shorter than four letters whose letters the reference word contains
C5_Witness ==
    /\ call.op = "findStealsFrom"
    /\ Len(result) >= 1
    /\ \E w \in dictionary : Len(w) < 4 /\ StrictSubMultiset(w, call.word)

\* the dictionary words findStealsFrom(ref) / findStealsTo(ref) ought to list
StealCandidates ==
    {w \in dictionary :
        /\ Len(w) >= 4
        /\ IF call.op = "findStealsFrom"
           THEN Len(w) < Len(call.word) /\ StrictSubMultiset(w, call.word)
           ELSE Len(w) > Len(call.word) /\ StrictSubMultiset(call.word, w)}

\* C6: findStealsFrom(ref) lists, once each, exactly the dictionary words of
\* four letters or more that are shorter than ref and strict letter-subsets
\* of it; findStealsTo(ref) lists, once each, exactly the dictionary words of
\* four letters or more that are longer than ref and of which ref is a strict
\* letter-subset.
C6_StealsComplete ==
    IsStealCall =>
        /\ {Candidate(result[i]) : i \in 1..Len(result)} = StealCandidates
        /\ Len(result) = Cardinality(StealCandidates)

\* a steal result with two entries from a dictionary that also holds a word
\* which is no candidate
C6_Witness ==
    /\ IsStealCall
    /\ Len(result) >= 2
    /\ Cardinality(dictionary) > Len(result)

\* the unordered pairs of distinct dictionary words, each of four letters or
\* more, whose letters together are a strict letter-subset of T
QualifyingPairs(T) ==
    {pair \in SUBSET dictionary :
        /\ Cardinality(pair) = 2
        /\ \A w \in pair : Len(w) >= 4
        /\ \E w1 \in pair, w2 \in pair :
              w1 # w2 /\ StrictSubMultiset(w1 \o w2, T)}

\* C7: when fewer than maxResults pairs qualify, findMergeSteals(T) returns
\* every unordered pair of distinct dictionary words of four letters or more
\* whose combined letters are a strict letter-subset of T.
C7_MergeComplete ==
    call.op = "findMergeSteals"
    /\ Cardinality(QualifyingPairs(call.word)) < call.maxResults
    => {{result[i].word1, result[i].word2} : i \in 1..Len(result)}
           = QualifyingPairs(call.word)

\* a merge-to-target search under its cap with two qualifying pairs
C7_Witness ==
    /\ call.op = "findMergeSteals"
    /\ Cardinality(QualifyingPairs(call.word)) < call.maxResults
    /\ Cardinality(QualifyingPairs(call.word)) >= 2

\* the number of results a merge call finds when nothing caps it
Uncapped(c) ==
    LET noCap == Len(wordList) * Len(wordList) + 1
    IN IF c.op = "findMergeSteals"
       THEN Len(MergeFound(wordList, c.word, noCap))
       ELSE Len(MergeToFound(wordList, c.word, noCap))

\* the merge call was cut short by maxResults
Truncated == IsMergeCall /\ Uncapped(call) > Len(result)

\* C8: findMergeSteals(word, maxResults) and findMergeStealsTo(word,
\* maxResults) return at most maxResults results, for every maxResults >= 0.
C8_ResultCap ==
    IsMergeCall => Len(result) <= call.maxResults

\* a merge-with-source search that stopped at its cap with more to find
C8_Witness ==
    /\ call.op = "findMergeStealsTo"
    /\ call.maxResults >= 1
    /\ Len(result) = call.maxResults
    /\ Truncated

\* the word lists obtained by deleting words from wl
RECURSIVE SubLists(_)
SubLists(wl) ==
    IF wl = <<>> THEN {<<>>}
    ELSE LET rest == SubLists(Tail(wl))
         IN rest \cup {<<wl[1]>> \o s : s \in rest}

\* the same call is exhaustive on the word list wl and returns the same list
ExhaustiveTwin(wl) ==
    LET noCap == Len(wl) * Len(wl) + 1
    IN IF call.op = "findMergeSteals"
       THEN /\ Len(MergeFound(wl, call.word, noCap))
                  = Len(MergeFound(wl, call.word, call.maxResults))
            /\ findMergeStealsIn(wl, call.word, call.maxResults) = result
       ELSE /\ Len(MergeToFound(wl, call.word, noCap))
                  = Len(MergeToFound(wl, call.word, call.maxResults))
            /\ findMergeStealsToIn(wl, call.word, call.maxResults) = result

\* C9 as stated: a merge result cut short by maxResults can be told apart
\* from an exhaustive result: no dictionary makes the same call return the
\* same list without being cut short.
C9_TruncationReported ==
    Truncated => ~\E wl \in SubLists(wordList) : ExhaustiveTwin(wl)

\* C9 amended: a merge result cut short by maxResults has exactly maxResults
\* entries, so that a result with fewer entries is exhaustive; the returned
\* list carries no other mark of truncation.
C9_TruncatedIsFull ==
    Truncated => Len(result) = call.maxResults

\* a merge-to-target search cut short with one result kept
C9_Witness ==
    /\ call.op = "findMergeSteals"
    /\ Truncated
    /\ Len(result) >= 1

ALPHABET ==
    <<"A", "B", "C", "D", "E", "F", "G", "H", "I", "J", "K", "L", "M",
      "N", "O", "P", "Q", "R", "S", "T", "U", "V", "W", "X", "Y", "Z">>

LetterRank(c) == CHOOSE k \in 1..Len(ALPHABET) : ALPHABET[k] = c

\* a comes strictly before b in the alphabetical order of words
AlphaBefore(a, b) ==
    \E k \in 1..Len(b) :
        /\ k - 1 <= Len(a)
        /\ SubSeq(a, 1, k - 1) = SubSeq(b, 1, k - 1)
        /\ k > Len(a) \/ LetterRank(a[k]) < LetterRank(b[k])

AlphaLeq(a, b) == a = b \/ AlphaBefore(a, b)

\* the position of word w in the word list
ScanIndex(w) == CHOOSE k \in 1..Len(wordList) : wordList[k] = w

\* entry x may stand before entry y in a single-word steal result
StealsInOrder(x, y) ==
    /\ x.invalid => y.invalid
    /\ x.invalid = y.invalid =>
          IF call.op = "findStealsFrom"
          THEN Len(Candidate(x)) >= Len(Candidate(y))
          ELSE Len(Candidate(x)) <= Len(Candidate(y))
    /\ x.invalid = y.invalid /\ Len(Candidate(x)) = Len(Candidate(y)) =>
          AlphaLeq(Candidate(x), Candidate(y))

\* C11: in a findStealsFrom result every valid entry precedes every invalid
\* one and, within a validity group, entries go by candidate length
\* descending, then alphabetically; findStealsTo likewise by candidate
\* length ascending.
C11_StealsOrdered ==
    IsStealCall =>
        \A i \in 1..Len(result) : \A j \in (i + 1)..Len(result) :
            StealsInOrder(result[i], result[j])

\* a steal-from result holding two entries of one validity and different
\* lengths, and two of one validity and one length that the word list holds
\* in the other order
C11_Witness ==
    /\ call.op = "findStealsFrom"
    /\ \E i \in 1..Len(result) : \E j \in (i + 1)..Len(result) :
          /\ result[i].invalid = result[j].invalid
          /\ Len(result[i].baseWord) > Len(result[j].baseWord)
    /\ \E i \in 1..Len(result) : \E j \in (i + 1)..Len(result) :
          /\ result[i].invalid = result[j].invalid
          /\ Len(result[i].baseWord) = Len(result[j].baseWord)
          /\ ScanIndex(result[i].baseWord) > ScanIndex(result[j].baseWord)

\* len(word1) + len(word2) of an entry of a merge-to-target result
PairTotal(e) == Len(e.word1) + Len(e.word2)

\* entry x may stand before entry y in a merge-to-target result; the scan
\* discovers the pairs of one word1 in the word-list order of word2
MergesInOrder(x, y) ==
    /\ x.invalid => y.invalid
    /\ x.invalid = y.invalid => PairTotal(x) >= PairTotal(y)
    /\ x.invalid = y.invalid /\ PairTotal(x) = PairTotal(y) =>
          AlphaLeq(x.word1, y.word1)
    /\ x.invalid = y.invalid /\ PairTotal(x) = PairTotal(y)
          /\ x.word1 = y.word1 =>
          ScanIndex(x.word2) < ScanIndex(y.word2)

\* C12: in a findMergeSteals result every valid entry precedes every invalid
\* one; within a validity group entries go by len(word1) + len(word2)
\* descending, then alphabetically by word1; entries that tie on all three
\* keys keep their discovery order.
C12_MergesOrdered ==
    call.op = "findMergeSteals" =>
        \A i \in 1..Len(result) : \A j \in (i + 1)..Len(result) :
            MergesInOrder(result[i], result[j])

\* a merge-to-target result with a valid and an invalid entry, two entries
\* of different totals, and two entries tied on all three keys whose word2
\* are not in alphabetical order
C12_Witness ==
    /\ call.op = "findMergeSteals"
    /\ \E i \in 1..Len(result) : \E j \in (i + 1)..Len(result) :
          ~result[i].invalid /\ result[j].invalid
    /\ \E i \in 1..Len(result) : \E j \in (i + 1)..Len(result) :
          /\ result[i].invalid = result[j].invalid
          /\ PairTotal(result[i]) > PairTotal(result[j])
    /\ \E i \in 1..Len(result) : \E j \in (i + 1)..Len(result) :
          /\ result[i].invalid = result[j].invalid
          /\ PairTotal(result[i]) = PairTotal(result[j])
          /\ result[i].word1 = result[j].word1
          /\ AlphaBefore(result[j].word2, result[i].word2)

\* entry x may stand before entry y in a merge-with-source result
MergesToInOrder(x, y) ==
    /\ x.invalid => y.invalid
    /\ x.invalid = y.invalid => Len(x.resultWord) <= Len(y.resultWord)
    /\ x.invalid = y.invalid /\ Len(x.resultWord) = Len(y.resultWord) =>
          Len(x.otherWord) >= Len(y.otherWord)
    /\ x.invalid = y.invalid /\ Len(x.resultWord) = Len(y.resultWord)
          /\ Len(x.otherWord) = Len(y.otherWord) =>
          AlphaLeq(x.resultWord, y.resultWord)

WordsInPlay == dictionary \cup {call.word}

\* C14: isStrictSubset(smaller, larger) is true exactly when every letter of
\* smaller occurs in larger at least as often and smaller has fewer letters
\* in total; isStrictSubset(c, c) is false; and no steal result lists the
\* reference word or an anagram of it.
C14_StrictSubset ==
    IsStealCall =>
        /\ \A a \in WordsInPlay : \A b \in WordsInPlay :
              isStrictSubset(getLetterCounts(a), getLetterCounts(b))
                  <=> StrictSubMultiset(a, b)
        /\ \A c \in WordsInPlay :
              ~isStrictSubset(getLetterCounts(c), getLetterCounts(c))
        /\ \A i \in 1..Len(result) :
              ~SameLetters(Candidate(result[i]), call.word)

\* a steal search with a result, for a reference word that is in the
\* dictionary together with an anagram of it
C14_Witness ==
    /\ IsStealCall
    /\ Len(result) >= 1
    /\ call.word \in dictionary
    /\ \E w \in dictionary : w # call.word /\ SameLetters(w, call.word)

(***************************************************************************)
(* Classifiers.                                                            *)
(***************************************************************************)
\* both words have an entry in the etymology table
BothKnown(w1, w2) == w1 \in DOMAIN etymology /\ w2 \in DOMAIN etymology

\* some tag of w1 matches some tag of w2
SomeTagsMatch(w1, w2) ==
    \E t1 \in Range(etymology[w1]) : \E t2 \in Range(etymology[w2]) :
        etymologiesMatch(t1, t2)

\* r is the answer the tri-state rule gives for (w1, w2)
TriState(r, w1, w2) ==
    /\ r \in {"true", "false", "null"}
    /\ r = "null" <=> ~BothKnown(w1, w2)
    /\ BothKnown(w1, w2) => (r = "true" <=> SomeTagsMatch(w1, w2))
    /\ BothKnown(w1, w2) /\ (etymology[w1] = <<>> \/ etymology[w2] = <<>>)
          => r = "false"

\* C15: shareEtymology(w1, w2) is null exactly when one of the two words has
\* no entry in the etymology table; when both have one it is true if some
\* tag of w1 matches some tag of w2 and false otherwise, false in particular
\* when a tag list is empty.
C15_EtymologyTriState ==
    IsStealCall =>
        \A w1 \in WordsInPlay : \A w2 \in WordsInPlay :
            TriState(shareEtymology(w1, w2), w1, w2)

\* a steal search over words of which two different ones share an etymology
\* under different tags, one has an empty tag list beside a word with tags,
\* and one has no entry
C15_Witness ==
    /\ IsStealCall
    /\ \E w1 \in WordsInPlay : \E w2 \in WordsInPlay :
          /\ w1 # w2
          /\ shareEtymology(w1, w2) = "true"
          /\ Range(etymology[w1]) \cap Range(etymology[w2]) = {}
    /\ \E w1 \in WordsInPlay : \E w2 \in WordsInPlay :
          /\ BothKnown(w1, w2)
          /\ etymology[w1] = <<>> /\ etymology[w2] # <<>>
    /\ \E w1 \in WordsInPlay : \E w2 \in WordsInPlay :
          w1 \in DOMAIN etymology /\ shareEtymology(w1, w2) = "null"

\* result = base + s with s in the suffix set
SuffixRule(base, res) ==
    \E s \in INFLECTION_SUFFIXES : res = base \o s

\* result = base + c + s with c a doubling consonant, the last letter of
\* base, and s in the suffix set
DoublingRule(base, res) ==
    \E c \in DOUBLE_CONSONANTS : \E s \in INFLECTION_SUFFIXES :
        /\ base # <<>>
        /\ base[Len(base)] = c
        /\ res = base \o <<c>> \o s

\* result = p + base with p in the prefix set
PrefixRule(base, res) ==
    \E p \in INFLECTION_PREFIXES : res = p \o base

AffixRule(base, res) ==
    SuffixRule(base, res) \/ DoublingRule(base, res)
        \/ PrefixRule(base, res)

\* C16: isInflection(base, result) is true exactly when
\* shareEtymology(base, result) is true, or result = base + s, or
\* result = base + c + s, or result = p + base, with s in the suffix set, c a
\* doubling consonant equal to the last letter of base and p in the prefix
\* set; an etymology answer of false or null leaves the affix rules in force.
C16_InflectionRule ==
    IsStealCall =>
        \A base \in WordsInPlay : \A res \in WordsInPlay :
            isInflection(base, res)
                <=> (shareEtymology(base, res) = "true" \/ AffixRule(base, res))

\* a steal search over words holding a pair under each affix rule, one of
\* them with the etymology answer false and one with null, and a pair that
\* shares an etymology under no affix rule
C16_Witness ==
    /\ IsStealCall
    /\ \E base \in WordsInPlay : \E res \in WordsInPlay :
          SuffixRule(base, res) /\ shareEtymology(base, res) = "null"
    /\ \E base \in WordsInPlay : \E res \in WordsInPlay :
          DoublingRule(base, res)
    /\ \E base \in WordsInPlay : \E res \in WordsInPlay :
          PrefixRule(base, res) /\ shareEtymology(base, res) = "false"
    /\ \E base \in WordsInPlay : \E res \in WordsInPlay :
          shareEtymology(base, res) = "true" /\ ~AffixRule(base, res)

\* C17: the invalid flag of every single-word steal entry is
\* isInflection(shorter word, longer word): isInflection(candidate, ref) in
\* findStealsFrom(ref), isInflection(ref, candidate) in findStealsTo(ref);
\* with CAT and CATS in the dictionary and no etymology data,
\* findStealsTo(CAT) lists CATS with invalid true.
C17_InvalidIsInflection ==
    /\ IsStealCall =>
          \A i \in 1..Len(result) :
              result[i].invalid
                  = isInflection(Shorter(result[i]), Longer(result[i]))
    /\ call.op = "findStealsTo" /\ call.word = wCAT
          /\ etymology = NoEtymology /\ {wCAT, wCATS} \subseteq dictionary
          => \E i \in 1..Len(result) :
                result[i].resultWord = wCATS /\ result[i].invalid

\* findStealsFrom was called and lists an invalid entry beside a valid one
C17_Witness ==
    /\ call.op = "findStealsFrom"
    /\ \E i \in 1..Len(result) : result[i].invalid
    /\ \E i \in 1..Len(result) : ~result[i].invalid

\* w occurs in t as a run of consecutive letters
IsSubstring(w, t) ==
    \E k \in 1..(Len(t) - Len(w) + 1) :
        \A m \in 1..Len(w) : t[k + m - 1] = w[m]

\* the two merged input words of an entry of a merge result
MergeInputs(e) ==
    IF call.op = "findMergeSteals" THEN {e.word1, e.word2}
    ELSE {call.word, e.otherWord}

\* C18: the invalid flag of every entry of a findMergeSteals or
\* findMergeStealsTo result is true exactly when the result word contains
\* one of the two merged words as a run of consecutive letters, whatever the
\* etymology table and the affix rules say; CAT + FISH giving CATFISH is
\* classified invalid.
C18_MergeInvalidIsCompound ==
    IsMergeCall =>
        /\ \A i \in 1..Len(result) :
              result[i].invalid
                  <=> \E w \in MergeInputs(result[i]) :
                         IsSubstring(w, MergeResultWord(result[i]))
        /\ isCompoundContaining(wCAT, <<"F", "I", "S", "H">>,
                                <<"C", "A", "T", "F", "I", "S", "H">>)

\* a merge-to-target result with an entry that is invalid because of its
\* word2 alone, and a valid entry one of whose words isInflection relates to
\* the target through the etymology table
C18_Witness ==
    /\ call.op = "findMergeSteals"
    /\ \E i \in 1..Len(result) :
          /\ result[i].invalid
          /\ ~IsSubstring(result[i].word1, call.word)
    /\ \E i \in 1..Len(result) :
          /\ ~result[i].invalid
          /\ isInflection(result[i].word1, call.word)

(***************************************************************************)
(* checkWord.                                                              *)
(***************************************************************************)
\* C19 as stated: checkWord returns one of 'too_short', 'valid', 'invalid'
\* for every input.
C19_AlwaysAVerdict ==
    call.op = "checkWord" => result \in {"too_short", "valid", "invalid"}

\* the verdict on the trimmed, upper-cased word w
Verdict(w) ==
    IF Len(w) < 4 THEN "too_short"
    ELSE IF w \in dictionary THEN "valid"
    ELSE "invalid"

\* C19 amended: checkWord returns null when the trimmed input is empty or
\* the dictionary is not loaded; otherwise it returns 'too_short' when the
\* trimmed, upper-cased word has fewer than 4 letters (even if the
\* dictionary holds it), else 'valid' if the dictionary holds it and
\* 'invalid' if not; it changes no state.
C19_CheckWord ==
    [][call = NoCall /\ call'.op = "checkWord" =>
          /\ result' = IF normalizedWord(call'.word) = <<>> \/ ~isLoaded
                       THEN "null"
                       ELSE Verdict(normalizedWord(call'.word))
          /\ dictionary' = dictionary
          /\ wordList' = wordList
          /\ etymology' = etymology
          /\ isLoaded' = isLoaded]_vars

\* checkWord answered 'too_short' on a text with a blank and a lower-case
\* letter whose word the dictionary holds
C19_Witness ==
    /\ call.op = "checkWord"
    /\ result = "too_short"
    /\ normalizedWord(call.word) # call.word
    /\ normalizedWord(call.word) \in dictionary

(***************************************************************************)
(* Completeness of merge-with-source.                                      *)
(***************************************************************************)
\* the pairs <<otherWord, resultWord>> of dictionary words that qualify for
\* findMergeStealsTo(source)
QualifyingMergesTo(source) ==
    {p \in dictionary \X dictionary :
        /\ Len(p[2]) >= Len(source) + 5
        /\ Len(p[2]) <= Len(source) + 10
        /\ Len(p[1]) >= 4
        /\ StrictSubMultiset(source \o p[1], p[2])}

\* the pairs <<otherWord, resultWord>> of the result
ReportedMergesTo == {<<result[i].otherWord, result[i].resultWord>> : i \in 1..Len(result)}

\* the result lists exactly the pairs of Q, once each
ListsOnce(Q) == ReportedMergesTo = Q /\ Len(result) = Cardinality(Q)

\* C20: when fewer than maxResults pairs qualify, findMergeStealsTo(source)
\* lists, once each, every pair (otherWord, resultWord) of dictionary words
\* with len(resultWord) in [len(source) + 5, len(source) + 10],
\* len(otherWord) >= 4 and source and otherWord together a strict
\* letter-subset of resultWord; a resultWord longer than len(source) + 10 is
\* never listed.
C20_MergeToComplete ==
    call.op = "findMergeStealsTo" =>
        /\ Cardinality(QualifyingMergesTo(call.word)) < call.maxResults
              => ListsOnce(QualifyingMergesTo(call.word))
        /\ \A i \in 1..Len(result) :
              Len(result[i].resultWord) <= Len(call.word) + 10

\* a merge-with-source search under its cap with qualifying pairs of two
\* result words, one of them at the upper end of the window
C20_Witness ==
    /\ call.op = "findMergeStealsTo"
    /\ Cardinality(QualifyingMergesTo(call.word)) < call.maxResults
    /\ \E p \in QualifyingMergesTo(call.word) :
          \E q \in QualifyingMergesTo(call.word) :
              /\ Len(p[2]) < Len(q[2])
              /\ Len(q[2]) = Len(call.word) + 10

(***************************************************************************)
(* Truncation of the merge searches.                                       *)
(***************************************************************************)
\* the pairs <<word1, word2>> the pair loop of findMergeSteals(T) can push:
\* word1 stands before word2 in the word list
ScanPairs(T) ==
    {p \in dictionary \X dictionary :
        /\ ScanIndex(p[1]) < ScanIndex(p[2])
        /\ Len(p[1]) >= 4 /\ Len(p[2]) >= 4
        /\ StrictSubMultiset(p[1] \o p[2], T)}

\* pair q is met no later than pair p: by the first word's position in the
\* word list, then by the second word's
PairNoLater(q, p) ==
    \/ ScanIndex(q[1]) < ScanIndex(p[1])
    \/ ScanIndex(q[1]) = ScanIndex(p[1]) /\ ScanIndex(q[2]) <= ScanIndex(p[2])

\* pair <<otherWord, resultWord>> q is met no later than p: by the result
\* word's position in the word list, then by the other word's
MergeToNoLater(q, p) == PairNoLater(<<q[2], q[1]>>, <<p[2], p[1]>>)

\* the pairs <<word1, word2>> of a findMergeSteals result
ReportedPairs == {<<result[i].word1, result[i].word2>> : i \in 1..Len(result)}

\* C21: a merge search keeps the first maxResults qualifying pairs in scan
\* order -- for findMergeSteals by (i, j) over the word list, for
\* findMergeStealsTo by target word, then other word -- whatever their rank
\* under the sort key, and lists each of them once.
C21_TruncationPreSort ==
    /\ call.op = "findMergeSteals" =>
          /\ ReportedPairs =
                {p \in ScanPairs(call.word) :
                    Cardinality({q \in ScanPairs(call.word) : PairNoLater(q, p)})
                        <= call.maxResults}
          /\ Len(result) = Cardinality(ReportedPairs)
    /\ call.op = "findMergeStealsTo" =>
          /\ ReportedMergesTo =
                {p \in QualifyingMergesTo(call.word) :
                    Cardinality({q \in QualifyingMergesTo(call.word) :
                                    MergeToNoLater(q, p)})
                        <= call.maxResults}
          /\ Len(result) = Cardinality(ReportedMergesTo)

\* a merge-to-target search cut short that keeps an invalid pair and leaves
\* out a valid one
C21_Witness ==
    /\ call.op = "findMergeSteals"
    /\ call.maxResults >= 1
    /\ \E i \in 1..Len(result) : result[i].invalid
    /\ \E p \in ScanPairs(call.word) \ ReportedPairs :
          ~isCompoundContaining(p[1], p[2], call.word)

(***************************************************************************)
(* The pairs of a merge-to-target result.                                  *)
(***************************************************************************)
\* C22: in a findMergeSteals result word1 and word2 are different dictionary
\* words and no unordered pair {word1, word2} is listed twice, so a merge
\* using one word twice is never reported.
C22_DistinctPairs ==
    call.op = "findMergeSteals" =>
        /\ \A i \in 1..Len(result) :
              /\ result[i].word1 # result[i].word2
              /\ result[i].word1 \in dictionary
              /\ result[i].word2 \in dictionary
        /\ \A i \in 1..Len(result) : \A j \in (i + 1)..Len(result) :
              {result[i].word1, result[i].word2}
                  # {result[j].word1, result[j].word2}

\* a merge-to-target search with results whose target holds the letters of
\* one dictionary word twice
C22_Witness ==
    /\ call.op = "findMergeSteals"
    /\ result # <<>>
    /\ \E w \in dictionary :
          Len(w) >= 4 /\ StrictSubMultiset(w \o w, call.word)

(***************************************************************************)
(* Shared etymologies.                                                     *)
(***************************************************************************)
\* the tags of word w in the etymology table, none if it has no entry
TagsOf(w) == IF w \in DOMAIN etymology THEN Range(etymology[w]) ELSE {}

\* the length of a tag's normalized root
RootLength(tag) == Len(normalizeRoot(RootOf(tag)))

\* tag t is what the matching tags a and b contribute: the tag itself for an
\* exact match, else one of the two whose normalized root is not the longer
Contributes(t, a, b) ==
    /\ etymologiesMatch(a, b)
    /\ t \in {a, b}
    /\ RootLength(t) <= RootLength(a)
    /\ RootLength(t) <= RootLength(b)

\* C23: getSharedEtymologies(w1, w2) is non-empty exactly when
\* shareEtymology(w1, w2) is true; it has no duplicates; every matching pair
\* of tags contributes the tag itself (exact match) or the tag with the
\* shorter normalized root (fuzzy match), and nothing else is listed.
C23_SharedEtymologies ==
    call.op = "getSharedEtymologies" =>
        /\ result # <<>> <=> shareEtymology(call.word, call.other) = "true"
        /\ \A i \in 1..Len(result) : \A j \in (i + 1)..Len(result) :
              result[i] # result[j]
        /\ \A a \in TagsOf(call.word) : \A b \in TagsOf(call.other) :
              etymologiesMatch(a, b) =>
                  \E t \in Range(result) : Contributes(t, a, b)
        /\ \A t \in Range(result) :
              \E a \in TagsOf(call.word) : \E b \in TagsOf(call.other) :
                  Contributes(t, a, b)

\* a comparison where a fuzzy match of roots of different lengths
\* contributes the second word's tag and a tag found twice is listed once
C23_Witness ==
    /\ call.op = "getSharedEtymologies"
    /\ call.word \in DOMAIN etymology /\ call.other \in DOMAIN etymology
    /\ Len(result) < Len(SharedOf(etymology[call.word], etymology[call.other]))
    /\ \E a \in TagsOf(call.word) : \E b \in TagsOf(call.other) :
          /\ etymologiesMatch(a, b)
          /\ RootLength(b) < RootLength(a)
          /\ b \in Range(result)

(***************************************************************************)
(* Tags with an unknown or short root.                                     *)
(***************************************************************************)
\* the tags of the etymology table
AllTags == UNION {Range(etymology[w]) : w \in DOMAIN etymology}

\* the tag's root is unknown
UnknownRoot(tag) == RootOf(tag) = <<"-">>

\* the tag's root is unknown, or its normalized root has fewer than 3
\* characters
ShortRoot(tag) == UnknownRoot(tag) \/ RootLength(tag) < 3

\* the tags of an unknown root that both words carry
SharedUnknownTags(w1, w2) ==
    {t \in TagsOf(w1) \cap TagsOf(w2) : UnknownRoot(t)}

\* C24: two tags of one language of which one has an unknown root ('lang:-')
\* or a normalized root shorter than 3 characters match exactly when they
\* are the same string; two different words carrying the same tag 'lang:-'
\* share etymology, and a steal between them is marked invalid.
C24_UnknownRootTags ==
    IsStealCall =>
        /\ \A a \in AllTags : \A b \in AllTags :
              LangOf(a) = LangOf(b) /\ (ShortRoot(a) \/ ShortRoot(b))
                  => (etymologiesMatch(a, b) <=> a = b)
        /\ \A w1 \in WordsInPlay : \A w2 \in WordsInPlay :
              w1 # w2 /\ SharedUnknownTags(w1, w2) # {}
                  => shareEtymology(w1, w2) = "true"
        /\ \A i \in 1..Len(result) :
              SharedUnknownTags(Shorter(result[i]), Longer(result[i])) # {}
                  => result[i].invalid

\* a steal marked invalid between two words that match neither an affix rule
\* nor by any tags but the tag 'lang:-' they both carry, with another tag of
\* that language in the table
C24_Witness ==
    /\ IsStealCall
    /\ \E i \in 1..Len(result) :
          /\ result[i].invalid
          /\ ~AffixRule(Shorter(result[i]), Longer(result[i]))
          /\ SharedUnknownTags(Shorter(result[i]), Longer(result[i])) # {}
          /\ \A a \in TagsOf(Shorter(result[i])) :
                \A b \in TagsOf(Longer(result[i])) :
                    etymologiesMatch(a, b) => a = b /\ UnknownRoot(a)
    /\ \E a \in AllTags : \E b \in AllTags :
          a # b /\ LangOf(a) = LangOf(b) /\ UnknownRoot(a)

(***************************************************************************)
(* Navigation history.                                                     *)
(***************************************************************************)
\* C25: historyIndex is -1 exactly when the history is empty and otherwise
\* lies in 0..length-1, whatever the interleaving of addToHistory,
\* navigateBack and navigateForward, overlapping navigations included; the
\* word a navigation reads at historyIndex is defined.
C25_IndexValid ==
    /\ historyIndex = -1 <=> wordHistory = <<>>
    /\ wordHistory # <<>> =>
          0 <= historyIndex /\ historyIndex <= Len(wordHistory) - 1
    /\ wordInput # undefined

\* two navigations back await their searches at once and have reached the
\* first entry of a full history
C25_Witness ==
    /\ Cardinality(inFlight) = 2
    /\ call.op = "navigateBack"
    /\ historyIndex = 0
    /\ Len(wordHistory) = MaxHistory
    /\ wordInput = wordHistory[1]

\* C26 as stated: isNavigating is true as long as the search of some
\* navigation has not completed, also when navigations overlap, so an
\* addToHistory call made meanwhile leaves the history and the index alone.
C26_FlagCoversSearch ==
    [][/\ inFlight' # {} => isNavigating'
       /\ call'.op = "addToHistory" /\ inFlight # {}
             => wordHistory' = wordHistory /\ historyIndex' = historyIndex]_vars

\* C27: addToHistory(word) called while isNavigating is false with a word
\* that is not blank leaves the trimmed, uppercased word as the last entry
\* with historyIndex pointing at it; the entries up to the previous
\* historyIndex are kept and the later ones dropped; the word is appended
\* unless it equals the entry at the previous historyIndex; no two adjacent
\* entries of the history are equal.
C27_AddToHistory ==
    [][/\ call'.op = "addToHistory" /\ ~isNavigating
             /\ normalizedWord(call'.word) # <<>>
          => /\ wordHistory' # <<>>
             /\ wordHistory'[Len(wordHistory')] = normalizedWord(call'.word)
             /\ historyIndex' = Len(wordHistory') - 1
             /\ SubSeq(wordHistory', 1, historyIndex + 1)
                    = SubSeq(wordHistory, 1, historyIndex + 1)
             /\ Len(wordHistory') =
                    IF wordHistory # <<>>
                       /\ wordHistory[historyIndex + 1] = normalizedWord(call'.word)
                    THEN historyIndex + 1
                    ELSE historyIndex + 2
       /\ \A i \in 1..(Len(wordHistory') - 1) :
             wordHistory'[i] # wordHistory'[i + 1]]_vars

\* addToHistory has taken a word typed with a blank and in lower case into a
\* history that has been navigated, and the back button has been enabled
C27_Witness ==
    /\ call.op = "addToHistory"
    /\ ~isNavigating
    /\ normalizedWord(call.word) # <<>>
    /\ normalizedWord(call.word) # call.word
    /\ Len(wordHistory) = 2
    /\ wordHistory[2] = normalizedWord(call.word)
    /\ wordInput = wordHistory[2]
    /\ ~buttons.back

\* C28: navigateBack and navigateForward leave the history as it is and
\* move historyIndex by exactly one step, back or forward; at
\* historyIndex <= 0 (back) or historyIndex >= length-1 (forward) they
\* change nothing and start no search; addToHistory called while
\* isNavigating is true, or with a blank word, leaves the history and
\* historyIndex as they are.
C28_NavigationFrame ==
    [][/\ call'.op = "navigateBack" =>
             IF historyIndex <= 0
             THEN UNCHANGED navVars
             ELSE wordHistory' = wordHistory /\ historyIndex' = historyIndex - 1
       /\ call'.op = "navigateForward" =>
             IF historyIndex >= Len(wordHistory) - 1
             THEN UNCHANGED navVars
             ELSE wordHistory' = wordHistory /\ historyIndex' = historyIndex + 1
       /\ call'.op = "addToHistory"
             /\ (isNavigating \/ \A i \in 1..Len(call'.word) : call'.word[i] = " ")
          => wordHistory' = wordHistory /\ historyIndex' = historyIndex]_vars

\* navigateForward has moved to the last entry of a full history while the
\* navigation back that had left it still awaits its search
C28_Witness ==
    /\ call.op = "navigateForward"
    /\ Len(wordHistory) = MaxHistory
    /\ historyIndex = Len(wordHistory) - 1
    /\ wordInput = wordHistory[Len(wordHistory)]
    /\ Cardinality(inFlight) = 2

\* C29: provided every search a navigation awaits settles, isNavigating
\* always becomes false again and every navigation leaves flight; the flag
\* is false whenever no navigation is in flight; and the buttons are updated
\* when a navigation's search settles, resolved or rejected, or throws at
\* once.
C29_FlagReleased ==
    /\ [](inFlight = {} => ~isNavigating)
    /\ isNavigating ~> ~isNavigating
    /\ \A id \in NavIds : (id \in inFlight) ~> (id \notin inFlight)
    /\ [][\/ call'.op = "searchSettles"
          \/ /\ call'.op \in {"navigateBack", "navigateForward"}
             /\ historyIndex' # historyIndex
             /\ inFlight' = inFlight
          => /\ buttons' = updateNavigationButtons(wordHistory', historyIndex')
             /\ ~isNavigating']_vars

\* the search of the only navigation in flight has been rejected: the flag
\* is down and the buttons show the first entry of a longer history
C29_Witness ==
    /\ call.op = "searchSettles"
    /\ call.word = <<"rejected">>
    /\ inFlight = {}
    /\ ~isNavigating
    /\ historyIndex = 0
    /\ Len(wordHistory) >= 2
    /\ buttons = [back |-> TRUE, forward |-> FALSE]

(***************************************************************************)
(* Agreement of the two merge searches.                                    *)
(***************************************************************************)
\* what the merge-with-source result `to` says of the other word o and the
\* result word T
MergeToSays(to, o, T) ==
    {[addedLetters |-> to[i].addedLetters, invalid |-> to[i].invalid] :
        i \in {k \in 1..Len(to) : to[k].otherWord = o /\ to[k].resultWord = T}}

\* what the merge-to-target result `merge` says of the unordered pair {s, o}
MergeSays(merge, s, o) ==
    {[addedLetters |-> merge[i].addedLetters, invalid |-> merge[i].invalid] :
        i \in {k \in 1..Len(merge) : {merge[k].word1, merge[k].word2} = {s, o}}}

\* the results `to` of findMergeStealsTo(s) and `merge` of findMergeSteals(T),
\* the latter under its cap, agree
MergesAgreeOn(to, merge, s, T, cap) ==
    Len(merge) < cap =>
        /\ \A o \in dictionary \ {s} :
              MergeToSays(to, o, T) = MergeSays(merge, s, o)
        /\ MergeSays(merge, s, s) = {}

\* C30: for dictionary words s, o, T with s # o, len(s) >= 4 and
\* len(T) <= len(s) + 10, and neither search at its cap, findMergeStealsTo(s)
\* lists (otherWord o, resultWord T) exactly when findMergeSteals(T) lists
\* the pair {s, o}, with the same addedLetters and invalid flag; an entry of
\* findMergeStealsTo(s) with otherWord = s has no counterpart.
C30_MergesAgree ==
    /\ call.op = "findMergeStealsTo"
    /\ call.word \in dictionary
    /\ Len(call.word) >= 4
    /\ Len(result) < call.maxResults
    => \A T \in dictionary :
          Len(T) <= Len(call.word) + 10 =>
              MergesAgreeOn(result, findMergeSteals(T, call.maxResults),
                            call.word, T, call.maxResults)

\* a merge-with-source search from a dictionary word, under its cap, that
\* lists the source itself as other word and another word beside it for the
\* same result word
C30_Witness ==
    /\ call.op = "findMergeStealsTo"
    /\ call.word \in dictionary
    /\ Len(call.word) >= 4
    /\ Len(result) < call.maxResults
    /\ \E i \in 1..Len(result) : \E j \in 1..Len(result) :
          /\ result[i].otherWord = call.word
          /\ result[j].otherWord # call.word
          /\ result[j].resultWord = result[i].resultWord
          /\ MergeSays(findMergeSteals(result[j].resultWord, call.maxResults),
                       call.word, result[j].otherWord) # {}

=============================================================================
